---- MODULE Spec2Model ----
(***************************************************************************)
(* CKMS biased-quantile summary (src/src/lib.rs): construction, insertion, *)
(* the compression pass, query, the aggregates and the += merge.           *)
(*                                                                         *)
(* Reals are exact rationals <<num, den>> with den > 0.  The error values  *)
(* and the quantiles used here are chosen so that every f64 product the    *)
(* code forms (2.0 * error * r, q * n) is far from an integer boundary     *)
(* unless it is exactly representable, so floor() of the f64 value and     *)
(* floor() of the rational agree on every input within the bounds.         *)
(* Option<T> is a sequence: None is << >> and Some(x) is <<x>>.            *)
(***************************************************************************)
EXTENDS Integers, Sequences, FiniteSets

\* ----------------------------------------------------------------- bounds
MaxValue == 3
MaxInserts == 6
MaxInsertsB == 1
DeepInserts == 14
MergeInsertsA == 2
MergeInsertsB == 3

Values == 1..MaxValue

\* error arguments handed to CKMS::new: 0 and 1 are clamped by the constructor
ErrorInputs == {<<0, 1>>, <<1, 4>>, <<1, 2>>, <<1, 1>>}

\* quantiles asked of query
PhiSet == {<<0, 1>>, <<1, 4>>, <<1, 2>>, <<3, 4>>, <<1, 1>>}

\* ------------------------------------------------------------ Option<T>
None == << >>
Some(x) == <<x>>
IsSome(o) == Len(o) = 1
Unwrap(o) == o[1]

\* floor of a non-negative rational num/den
Floor(num, den) == num \div den

\* ------------------------------------------------------------------ CKMS
Entry(v, g, delta) == [v |-> v, g |-> g, delta |-> delta]

\* CKMS::new: clamp error into (0,1), insert_threshold = max(1, 1/(2*error)) as usize
new(error) ==
    LET e == IF error[1] <= 0 THEN <<1, 100000000>>
             ELSE IF error[1] >= error[2] THEN <<99, 100>>
             ELSE error
        \* 1.0 / (2.0 * error) < 1.0  iff  den < 2 * num
        thr == IF e[2] < 2 * e[1] THEN 1 ELSE Floor(e[2], 2 * e[1])
    IN  [n |-> 0, error |-> e, insert_threshold |-> thr, inserts |-> 0,
         samples |-> << >>, last_in |-> None, sum |-> None]

\* invariant with a floor of 3 instead of 1
invariant_floor3(self, rn, rd) ==
    LET i == Floor(2 * self.error[1] * rn, self.error[2] * rd)
    IN  IF 3 > i THEN 3 ELSE i

\* invariant(r) for the real r = rn/rd: max(1, floor(2 * error * r))
invariant(self, rn, rd) ==
    LET i == Floor(2 * self.error[1] * rn, self.error[2] * rd)
    IN  IF 1 > i THEN 1 ELSE i

\* Vec::insert(idx, e) with 0-based idx
VecInsert(s, idx, e) == SubSeq(s, 1, idx) \o <<e>> \o SubSeq(s, idx + 1, Len(s))

\* Vec::remove(idx) with 0-based idx
VecRemove(s, idx) == SubSeq(s, 1, idx) \o SubSeq(s, idx + 2, Len(s))

\* CompressStep whose merged entry keeps only the right entry's g
CompressStep_drops_g(self, st) ==
    LET cur == st.samples[st.i + 1]
        nxt == st.samples[st.i + 2]
        merge == cur.g + nxt.g + nxt.delta <= invariant(self, st.r, 1)
    IN  IF merge
        THEN [samples |-> VecRemove([st.samples EXCEPT ![st.i + 1] =
                                       Entry(nxt.v, nxt.g, nxt.delta)], st.i + 1),
              i |-> st.i, r |-> st.r + 1, s_mx |-> st.s_mx - 1]
        ELSE [samples |-> st.samples, i |-> st.i + 1, r |-> st.r + 1, s_mx |-> st.s_mx]

\* CompressStep whose merged entry keeps the left entry's value
CompressStep_left_value(self, st) ==
    LET cur == st.samples[st.i + 1]
        nxt == st.samples[st.i + 2]
        merge == cur.g + nxt.g + nxt.delta <= invariant(self, st.r, 1)
    IN  IF merge
        THEN [samples |-> VecRemove([st.samples EXCEPT ![st.i + 1] =
                                       Entry(cur.v, nxt.g + cur.g, nxt.delta)], st.i + 1),
              i |-> st.i, r |-> st.r + 1, s_mx |-> st.s_mx - 1]
        ELSE [samples |-> st.samples, i |-> st.i + 1, r |-> st.r + 1, s_mx |-> st.s_mx]

\* CompressStep whose merged entry keeps the left entry's delta
CompressStep_left_delta(self, st) ==
    LET cur == st.samples[st.i + 1]
        nxt == st.samples[st.i + 2]
        merge == cur.g + nxt.g + nxt.delta <= invariant(self, st.r, 1)
    IN  IF merge
        THEN [samples |-> VecRemove([st.samples EXCEPT ![st.i + 1] =
                                       Entry(nxt.v, nxt.g + cur.g, cur.delta)], st.i + 1),
              i |-> st.i, r |-> st.r + 1, s_mx |-> st.s_mx - 1]
        ELSE [samples |-> st.samples, i |-> st.i + 1, r |-> st.r + 1, s_mx |-> st.s_mx]

\* one iteration of the loop of compress on its locals
\* st = [samples, i, r, s_mx] (0-based i): lines 270-287
CompressStep(self, st) ==
    LET cur_g == st.samples[st.i + 1].g
        nxt == st.samples[st.i + 2]
        merge == cur_g + nxt.g + nxt.delta <= invariant(self, st.r, 1)
    IN  IF merge
        THEN [samples |-> VecRemove([st.samples EXCEPT ![st.i + 1] =
                                       Entry(nxt.v, nxt.g + cur_g, nxt.delta)], st.i + 1),
              i |-> st.i, r |-> st.r + 1, s_mx |-> st.s_mx - 1]
        ELSE [samples |-> st.samples, i |-> st.i + 1, r |-> st.r + 1, s_mx |-> st.s_mx]

\* the loop of compress: i, r, s_mx are the locals of the code (0-based i)
RECURSIVE CompressLoop(_, _, _, _, _)
CompressLoop(self, samples, i, r, s_mx) ==
    LET st == CompressStep(self, [samples |-> samples, i |-> i, r |-> r, s_mx |-> s_mx])
    IN  IF st.i = st.s_mx THEN st.samples
        ELSE CompressLoop(self, st.samples, st.i, st.r, st.s_mx)

compress(self) ==
    IF Len(self.samples) < 3 THEN self
    ELSE [self EXCEPT !.samples =
            CompressLoop(self, self.samples, 0, 1, Len(self.samples) - 1)]

\* Scan with the comparison turned round (samples[i].v > v)
RECURSIVE Scan_flipped(_, _, _, _, _)
Scan_flipped(samples, v, i, idx, r) ==
    IF i >= Len(samples) THEN <<idx, r>>
    ELSE IF samples[i + 1].v > v
         THEN Scan_flipped(samples, v, i + 1, idx + 1, r + samples[i + 1].g)
         ELSE <<idx, r>>

\* the scan of priv_insert: <<idx, r>> after "for i in 0..s"
RECURSIVE Scan(_, _, _, _, _)
Scan(samples, v, i, idx, r) ==
    IF i >= Len(samples) THEN <<idx, r>>
    ELSE IF samples[i + 1].v < v
         THEN Scan(samples, v, i + 1, idx + 1, r + samples[i + 1].g)
         ELSE <<idx, r>>

\* priv_insert whose first-sample branch also advances the inserts counter
priv_insert_first_counted(self, v) ==
    LET s == Len(self.samples)
    IN  IF s = 0
        THEN [self EXCEPT !.samples = <<Entry(v, 1, 0)>>, !.n = self.n + 1,
                          !.inserts = (self.inserts + 1) % self.insert_threshold]
        ELSE LET sc == Scan(self.samples, v, 0, 0, 0)
                 idx == sc[1]
                 r == sc[2]
                 delta == IF idx = 0 \/ idx = s THEN 0
                          ELSE invariant(self, r, 1) - 1
                 inserts2 == (self.inserts + 1) % self.insert_threshold
                 self2 == [self EXCEPT
                             !.samples = VecInsert(self.samples, idx, Entry(v, 1, delta)),
                             !.n = self.n + 1,
                             !.inserts = inserts2]
             IN  IF inserts2 = 0 THEN compress(self2) ELSE self2

\* priv_insert whose first-sample branch returns without counting the insert
priv_insert_uncounted(self, v) ==
    LET s == Len(self.samples)
    IN  IF s = 0
        THEN [self EXCEPT !.samples = <<Entry(v, 1, 0)>>]
        ELSE LET sc == Scan(self.samples, v, 0, 0, 0)
                 idx == sc[1]
                 r == sc[2]
                 delta == IF idx = 0 \/ idx = s THEN 0
                          ELSE invariant(self, r, 1) - 1
                 inserts2 == (self.inserts + 1) % self.insert_threshold
                 self2 == [self EXCEPT
                             !.samples = VecInsert(self.samples, idx, Entry(v, 1, delta)),
                             !.n = self.n + 1,
                             !.inserts = inserts2]
             IN  IF inserts2 = 0 THEN compress(self2) ELSE self2

priv_insert(self, v) ==
    LET s == Len(self.samples)
    IN  IF s = 0
        THEN [self EXCEPT !.samples = <<Entry(v, 1, 0)>>, !.n = self.n + 1]
        ELSE LET sc == Scan(self.samples, v, 0, 0, 0)
                 idx == sc[1]
                 r == sc[2]
                 delta == IF idx = 0 \/ idx = s THEN 0
                          ELSE invariant(self, r, 1) - 1
                 inserts2 == (self.inserts + 1) % self.insert_threshold
                 self2 == [self EXCEPT
                             !.samples = VecInsert(self.samples, idx, Entry(v, 1, delta)),
                             !.n = self.n + 1,
                             !.inserts = inserts2]
             IN  IF inserts2 = 0 THEN compress(self2) ELSE self2

\* insert that overwrites sum with v instead of adding to it
insert_overwrite(self, v) ==
    priv_insert([self EXCEPT !.sum = Some(v), !.last_in = Some(v)], v)

insert(self, v) ==
    priv_insert([self EXCEPT
                   !.sum = IF IsSome(self.sum) THEN Some(Unwrap(self.sum) + v) ELSE Some(v),
                   !.last_in = Some(v)], v)

\* the walk of query returning cur.v where the code returns prev.v
RECURSIVE QueryLoop_cur(_, _, _, _, _)
QueryLoop_cur(self, qn, qd, i, r) ==
    LET s == Len(self.samples)
    IN  IF i >= s THEN Some(<<s, self.samples[s].v>>)
        ELSE LET prev == self.samples[i]
                 cur == self.samples[i + 1]
                 r2 == r + prev.g
                 lhs == r2 + cur.g + cur.delta
                 inv == invariant(self, qn * self.n, qd)
             IN  IF 2 * qd * lhs > 2 * qn * self.n + qd * inv
                 THEN Some(<<r2, cur.v>>)
                 ELSE QueryLoop_cur(self, qn, qd, i + 1, r2)

\* the walk of query for q = qn/qd; r is the running rank before step i (1-based i)
RECURSIVE QueryLoop(_, _, _, _, _)
QueryLoop(self, qn, qd, i, r) ==
    LET s == Len(self.samples)
    IN  IF i >= s THEN Some(<<s, self.samples[s].v>>)
        ELSE LET prev == self.samples[i]
                 cur == self.samples[i + 1]
                 r2 == r + prev.g
                 lhs == r2 + cur.g + cur.delta
                 \* nphi = qn*n/qd ; rhs = nphi + invariant(nphi)/2
                 \* lhs > rhs  iff  2*qd*lhs > 2*qn*n + qd*invariant(nphi)
                 inv == invariant(self, qn * self.n, qd)
             IN  IF 2 * qd * lhs > 2 * qn * self.n + qd * inv
                 THEN Some(<<r2, prev.v>>)
                 ELSE QueryLoop(self, qn, qd, i + 1, r2)

\* query that walks for the quantile 1 - q
query_complement(self, q) ==
    IF Len(self.samples) = 0 THEN None
    ELSE QueryLoop(self, q[2] - q[1], q[2], 1, 0)

\* query that also answers None for a single sample (s <= 1)
query_single_absent(self, q) ==
    IF Len(self.samples) <= 1 THEN None
    ELSE QueryLoop(self, q[1], q[2], 1, 0)

\* query(q): None on an empty summary, else Some((rank, value))
query(self, q) ==
    IF Len(self.samples) = 0 THEN None
    ELSE QueryLoop(self, q[1], q[2], 1, 0)

count(self) == self.n
last(self) == self.last_in
sum(self) == self.sum

\* "for smpl in rhs.samples { self.priv_insert(smpl.v) }"
RECURSIVE Reinsert(_, _, _)
Reinsert(self, samples, j) ==
    IF j > Len(samples) THEN self
    ELSE Reinsert(priv_insert(self, samples[j].v), samples, j + 1)

\* add_assign that reinserts through insert, updating sum and last_in again
RECURSIVE Reinsert_public(_, _, _)
Reinsert_public(self, samples, j) ==
    IF j > Len(samples) THEN self
    ELSE Reinsert_public(insert(self, samples[j].v), samples, j + 1)

add_assign_public(self, rhs) ==
    LET sum2 == IF ~IsSome(self.sum) /\ ~IsSome(rhs.sum) THEN None
                ELSE IF ~IsSome(self.sum) THEN rhs.sum
                ELSE IF ~IsSome(rhs.sum) THEN self.sum
                ELSE Some(Unwrap(self.sum) + Unwrap(rhs.sum))
    IN  Reinsert_public([self EXCEPT !.last_in = rhs.last_in, !.sum = sum2], rhs.samples, 1)

\* add_assign that also adds rhs.n, counting rhs's whole stream
add_assign_counts_rhs(self, rhs) ==
    LET sum2 == IF ~IsSome(self.sum) /\ ~IsSome(rhs.sum) THEN None
                ELSE IF ~IsSome(self.sum) THEN rhs.sum
                ELSE IF ~IsSome(rhs.sum) THEN self.sum
                ELSE Some(Unwrap(self.sum) + Unwrap(rhs.sum))
        m == Reinsert([self EXCEPT !.last_in = rhs.last_in, !.sum = sum2], rhs.samples, 1)
    IN  [m EXCEPT !.n = self.n + rhs.n]

add_assign(self, rhs) ==
    LET sum2 == IF ~IsSome(self.sum) /\ ~IsSome(rhs.sum) THEN None
                ELSE IF ~IsSome(self.sum) THEN rhs.sum
                ELSE IF ~IsSome(rhs.sum) THEN self.sum
                ELSE Some(Unwrap(self.sum) + Unwrap(rhs.sum))
    IN  Reinsert([self EXCEPT !.last_in = rhs.last_in, !.sum = sum2], rhs.samples, 1)

\* ------------------------------------------------------------- the state
VARIABLES
    a,        \* the summary under observation (lhs of +=)
    b,        \* a second summary of the same configuration (rhs of +=)
    bMoved,   \* b has been consumed by a += b
    streamA,  \* history: how often each value was handed to a.insert
    streamB,  \* history: how often each value was handed to b.insert
    lastA,    \* history: the value of the latest a.insert call
    merged,   \* history: a += b has run
    manual,   \* history: a.compress() has been called from outside insert
    op        \* history: the latest operation

vars == <<a, b, bMoved, streamA, streamB, lastA, merged, manual, op>>

EmptyBag == [v \in Values |-> 0]

RECURSIVE BagSizeUpTo(_, _)
BagSizeUpTo(bag, v) == IF v < 1 THEN 0 ELSE bag[v] + BagSizeUpTo(bag, v - 1)
BagSize(bag) == BagSizeUpTo(bag, MaxValue)

InitWith(errors) ==
    \E e \in errors :
        /\ a = new(e)
        /\ b = new(e)
        /\ bMoved = FALSE
        /\ streamA = EmptyBag
        /\ streamB = EmptyBag
        /\ lastA = None
        /\ merged = FALSE
        /\ manual = FALSE
        /\ op = "new"

Init == InitWith(ErrorInputs)

\* a.insert(v), at most cap calls
InsertOp(v, cap) ==
    /\ a.n < cap
    /\ a' = insert(a, v)
    /\ streamA' = [streamA EXCEPT ![v] = @ + 1]
    /\ lastA' = Some(v)
    /\ op' = "insert"
    /\ UNCHANGED <<b, bMoved, streamB, merged, manual>>

Insert == \E v \in Values : InsertOp(v, MaxInserts)

\* b.insert(v), at most cap calls
InsertBOp(v, cap) ==
    /\ ~bMoved
    /\ b.n < cap
    /\ b' = insert(b, v)
    /\ streamB' = [streamB EXCEPT ![v] = @ + 1]
    /\ op' = "insertB"
    /\ UNCHANGED <<a, bMoved, streamA, lastA, merged, manual>>

InsertB == \E v \in Values : InsertBOp(v, MaxInsertsB)

\* a.compress() called from outside an insert, as the tests do
Compress ==
    /\ a' = compress(a)
    /\ manual' = TRUE
    /\ op' = "compress"
    /\ UNCHANGED <<b, bMoved, streamA, streamB, lastA, merged>>

\* a += b ; b is moved into the call
Merge ==
    /\ ~bMoved
    /\ a.n + Len(b.samples) <= MaxInserts
    /\ a' = add_assign(a, b)
    /\ bMoved' = TRUE
    /\ merged' = TRUE
    /\ op' = "merge"
    /\ UNCHANGED <<b, streamA, streamB, lastA, manual>>

Next == Insert \/ InsertB \/ Compress \/ Merge

Spec == Init /\ [][Next]_vars

\* one summary with error 1/4 and a longer stream of plain inserts
InitDeep == InitWith({<<1, 4>>})
InsertDeep == \E v \in Values : InsertOp(v, DeepInserts)
NextDeep == InsertDeep
SpecDeep == InitDeep /\ [][NextDeep]_vars

\* a short stream into a, a stream into b long enough for b to compress, a += b
InsertMergeA == \E v \in Values : InsertOp(v, MergeInsertsA)
InsertMergeB == \E v \in Values : InsertBOp(v, MergeInsertsB)
NextMerge == InsertMergeA \/ InsertMergeB \/ Merge
SpecMerge == Init /\ [][NextMerge]_vars

\* ------------------------------------------------ what the history records
Abs(x) == IF x < 0 THEN 0 - x ELSE x

\* number of insert calls made on a
StreamLen == BagSize(streamA)

BagUnion(x, y) == [v \in Values |-> x[v] + y[v]]
Distinct(bag) == \A v \in Values : bag[v] <= 1
MinOf(bag) == CHOOSE v \in Values : bag[v] > 0 /\ \A w \in Values : bag[w] > 0 => v <= w
MaxOf(bag) == CHOOSE v \in Values : bag[v] > 0 /\ \A w \in Values : bag[w] > 0 => w <= v

RECURSIVE ArithSumUpTo(_, _)
ArithSumUpTo(bag, v) == IF v < 1 THEN 0 ELSE v * bag[v] + ArithSumUpTo(bag, v - 1)
ArithSum(bag) == ArithSumUpTo(bag, MaxValue)

\* the element at 0-based index idx of the sorted stream
SortedAt(bag, idx) ==
    CHOOSE v \in Values : BagSizeUpTo(bag, v) > idx /\ BagSizeUpTo(bag, v - 1) <= idx

\* the true q-quantile: the element at index min(floor(q*k), k-1) of the sorted stream
TrueQuantile(bag, q) ==
    LET k == BagSize(bag)
        f == Floor(q[1] * k, q[2])
    IN  SortedAt(bag, IF f < k - 1 THEN f ELSE k - 1)

\* number of stream elements <= v
TrueRank(bag, v) == BagSizeUpTo(bag, v)

\* sum of g over samples[1..j]
RECURSIVE SumG(_, _)
SumG(samples, j) == IF j < 1 THEN 0 ELSE samples[j].g + SumG(samples, j - 1)

QueryValue(self, q) == Unwrap(query(self, q))[2]
QueryRank(self, q) == Unwrap(query(self, q))[1]

\* only a.insert calls so far: no merge, no compress() from outside
OnlyInserts == ~merged /\ ~manual

\* |x - y| <= eps for integers x, y and the configured error of self
WithinError(self, x, y) == Abs(x - y) * self.error[2] <= self.error[1]

\* ----------------------------------------------------------------- claims

\* C1: after k insert calls on a fresh summary, with the scheduled compression
\* passes and any compress() calls in between, count() is exactly k.
C1_CountIsNumberOfInserts == ~merged => count(a) = StreamLen

\* C1 witness: several inserts were made, compression merged entries and
\* compress() was also called by hand.
C1_Witness ==
    ~merged /\ manual /\ StreamLen >= 4 /\ Len(a.samples) < StreamLen /\ a.inserts = 0

\* C2: after any inserts, compression passes and merge, samples is
\* non-decreasing in v.
C2_SamplesNonDecreasing ==
    /\ \A i \in 1..(Len(a.samples) - 1) : a.samples[i].v <= a.samples[i + 1].v
    /\ \A i \in 1..(Len(b.samples) - 1) : b.samples[i].v <= b.samples[i + 1].v

\* C2 witness: a merged summary that holds three different values and has been
\* compressed.
C2_Witness ==
    /\ merged
    /\ Len(a.samples) >= 3
    /\ Len(a.samples) < a.n
    /\ a.samples[1].v < a.samples[2].v
    /\ a.samples[2].v < a.samples[Len(a.samples)].v

\* C3: after any sequence of inserts every sample at index i >= 1 satisfies
\* g + delta <= f(r_i), r_i the sum of g over the samples before it, also
\* directly after a compression pass that merged entries.
C3_RankErrorInvariant ==
    OnlyInserts =>
        \A i \in 2..Len(a.samples) :
            a.samples[i].g + a.samples[i].delta
                <= invariant(a, SumG(a.samples, i - 1), 1)

\* C4: after k >= 1 inserts, query(1.0) returns the maximum inserted value.
C4_QueryOneIsMax ==
    (OnlyInserts /\ StreamLen >= 1) => QueryValue(a, <<1, 1>>) = MaxOf(streamA)

\* C5: after k >= 1 inserts, query(0.0) returns the minimum inserted value.
C5_QueryZeroIsMin ==
    (OnlyInserts /\ StreamLen >= 1) => QueryValue(a, <<0, 1>>) = MinOf(streamA)

\* C5 witness: the minimum arrived after larger values and compression has
\* merged entries since.
C5_Witness ==
    /\ OnlyInserts
    /\ StreamLen >= 4
    /\ Len(a.samples) < a.n
    /\ IsSome(lastA)
    /\ Unwrap(lastA) = MinOf(streamA)
    /\ streamA[Unwrap(lastA)] = 1
    /\ MaxOf(streamA) > MinOf(streamA)

\* C6: for a stream of n >= 1 distinct values and any Phi, the value returned
\* by query(Phi) has a true rank R with |R - Phi*n| <= epsilon*Phi*n.
C6_RankWithinEpsPhiN ==
    (OnlyInserts /\ StreamLen >= 1 /\ Distinct(streamA)) =>
        \A q \in PhiSet :
            LET R == TrueRank(streamA, QueryValue(a, q))
            IN  Abs(R * q[2] - q[1] * a.n) * a.error[2] <= a.error[1] * q[1] * a.n

\* C7: for a non-empty stream and any Phi, the value returned by query(Phi) is
\* within epsilon of the true Phi-quantile of the stream.
C7_ValueWithinEpsilon ==
    (OnlyInserts /\ StreamLen >= 1) =>
        \A q \in PhiSet : WithinError(a, QueryValue(a, q), TrueQuantile(streamA, q))

\* C8: after building a on A, b on B and a += b, every query(Phi) on a is within
\* epsilon of the true Phi-quantile of the combined stream.
C8_MergedValueWithinEpsilon ==
    (op = "merge" /\ ~manual /\ BagSize(BagUnion(streamA, streamB)) >= 1) =>
        \A q \in PhiSet :
            WithinError(a, QueryValue(a, q), TrueQuantile(BagUnion(streamA, streamB), q))

\* C9: after a non-empty sequence of inserts sum() is the arithmetic sum of the
\* inserted values and last() the most recently inserted one, whatever
\* compression passes ran in between.
C9_SumAndLast ==
    (~merged /\ StreamLen >= 1) =>
        /\ sum(a) = Some(ArithSum(streamA))
        /\ last(a) = lastA

\* C9 witness: the last insert triggered a compression pass that merged entries
\* and the latest value is not the largest one.
C9_Witness ==
    /\ ~merged
    /\ op = "insert"
    /\ StreamLen >= 3
    /\ a.inserts = 0
    /\ Len(a.samples) < a.n
    /\ Unwrap(lastA) < MaxOf(streamA)

\* absent + absent = absent, absent + x = x, x + y = x + y
OptionAdd(x, y) ==
    IF IsSome(x) /\ IsSome(y) THEN Some(Unwrap(x) + Unwrap(y))
    ELSE IF IsSome(x) THEN x ELSE y

\* C10: a += b leaves a.last() = b.last() as it was before the merge (absent
\* when b is empty) and a.sum() the combination of the two prior sums; the
\* reinsertion of b's samples changes neither again.
C10_MergeAggregates ==
    [][op' = "merge" =>
          /\ last(a') = last(b)
          /\ sum(a') = OptionAdd(sum(a), sum(b))]_vars

\* C10 witness: a merge of a non-empty b into a non-empty a whose last values
\* differ.
C10_Witness ==
    /\ op = "merge"
    /\ Len(b.samples) >= 2
    /\ a.n > Len(b.samples)
    /\ IsSome(lastA)
    /\ lastA # last(b)
    /\ last(a) = last(b)

\* some value has been inserted into a, directly or through a merge
Inserted == StreamLen > 0 \/ (merged /\ BagSize(streamB) > 0)

\* C11: query is absent exactly when a holds no samples, which is exactly when
\* no value was ever inserted into it (directly or through a merge); then
\* count() = 0 and last() and sum() are absent too.
C11_AbsentIffNothingInserted ==
    /\ \A q \in PhiSet : (query(a, q) = None) <=> (Len(a.samples) = 0)
    /\ (Len(a.samples) = 0) <=> ~Inserted
    /\ ~Inserted => (count(a) = 0 /\ last(a) = None /\ sum(a) = None)

\* C11 witness: a got its only values through a merge, compress() was called
\* and query still answers.
C11_Witness ==
    /\ merged
    /\ manual
    /\ StreamLen = 0
    /\ Len(a.samples) >= 1
    /\ query(a, <<1, 2>>) # None

\* an upper estimate <<num, den>> of (log10 x)^2 for x = xn/xd, None where this
\* table has none: 0 at x = 1; (log10 2)^2 < 1/10 on [1/2, 2];
\* (log10 4)^2 < 2/5 on [1/4, 4]; 1 on [1/10, 10]
Log10SquaredUpper(xn, xd) ==
    IF xn = xd THEN Some(<<0, 1>>)
    ELSE IF xd <= 2 * xn /\ xn <= 2 * xd THEN Some(<<1, 10>>)
    ELSE IF xd <= 4 * xn /\ xn <= 4 * xd THEN Some(<<2, 5>>)
    ELSE IF xd <= 10 * xn /\ xn <= 10 * xd THEN Some(<<1, 1>>)
    ELSE None

\* C12: after n inserts followed by compress(), the number of samples is at
\* most (1/epsilon) * (log10(epsilon*n))^2.  Stated wherever the table above
\* bounds the logarithm: |samples| <= (1/epsilon) * U with U >= (log10)^2.
C12_CompressionBound ==
    LET u == Log10SquaredUpper(a.error[1] * a.n, a.error[2])
    IN  (op = "compress" /\ ~merged /\ a.n >= 1 /\ IsSome(u)) =>
            Len(a.samples) * a.error[1] * Unwrap(u)[2] <= a.error[2] * Unwrap(u)[1]

\* C13: the rank returned by query(Phi) is the cumulative sum of g up to and
\* including the sample whose value is returned, on an early return and at the
\* end of the walk alike, also after compression merged entries.
C13_RankIsCumulativeG ==
    Len(a.samples) >= 1 =>
        \A q \in PhiSet :
            \E j \in 1..Len(a.samples) :
                /\ a.samples[j].v = QueryValue(a, q)
                /\ QueryRank(a, q) = SumG(a.samples, j)

\* C14: for a non-empty stream of n values and Phi in (0,1], the rank returned
\* by query(Phi) satisfies Phi*n - f(Phi*n)/2 <= rank <= Phi*n + f(Phi*n)/2.
C14_RankInWindow ==
    (OnlyInserts /\ StreamLen >= 1) =>
        \A q \in {p \in PhiSet : p[1] > 0} :
            LET f == invariant(a, q[1] * a.n, q[2])
                rank == QueryRank(a, q)
            IN  /\ 2 * q[1] * a.n - q[2] * f <= 2 * q[2] * rank
                /\ 2 * q[2] * rank <= 2 * q[1] * a.n + q[2] * f

\* C15: a += b raises a.count() by the number of samples retained in b, not by
\* b.count(): each retained value is reinserted once with g = 1.
C15_MergeCountsRetainedSamples ==
    [][op' = "merge" =>
          /\ count(a') = count(a) + Len(b.samples)
          /\ SumG(a'.samples, Len(a'.samples))
                = SumG(a.samples, Len(a.samples)) + Len(b.samples)]_vars

\* C15 witness: b had compressed (fewer samples than inserts) when it was
\* merged into a non-empty a.
C15_Witness ==
    /\ op = "merge"
    /\ Len(b.samples) < count(b)
    /\ StreamLen >= 1
    /\ count(a) = StreamLen + Len(b.samples)
    /\ count(a) < StreamLen + count(b)

\* the first and the last sample of a non-empty summary have delta = 0
EndpointsExact(self) ==
    Len(self.samples) >= 1 =>
        /\ self.samples[1].delta = 0
        /\ self.samples[Len(self.samples)].delta = 0

\* C16: in every reachable non-empty state, after every insert, compression
\* pass and merge, the first and the last sample have delta = 0.
C16_EndpointsHaveZeroDelta == EndpointsExact(a) /\ EndpointsExact(b)

\* C16 witness: a merged and compressed summary in which an inner sample
\* carries a positive delta.
C16_Witness ==
    /\ merged
    /\ Len(a.samples) >= 3
    /\ Len(a.samples) < a.n
    /\ \E j \in 2..(Len(a.samples) - 1) : a.samples[j].delta > 0

\* the number of iterations the loop of compress makes from the locals st;
\* -1 if an iteration would read samples[i] or samples[i + 1] outside the
\* sequence, or if the loop has not ended after fuel iterations
RECURSIVE CompressIterations(_, _, _)
CompressIterations(self, st, fuel) ==
    IF fuel = 0 \/ st.i < 0 \/ st.i + 2 > Len(st.samples) THEN -1
    ELSE LET nx == CompressStep(self, st)
         IN  IF nx.i = nx.s_mx THEN 1
             ELSE LET k == CompressIterations(self, nx, fuel - 1)
                  IN  IF k < 0 THEN -1 ELSE k + 1

\* compress() called on self behaves as stated, and the calls already made
\* inside insert have not left fewer than 2 samples
CompressWellBehaved(self) ==
    LET S == Len(self.samples)
    IN  /\ self.n >= 2 => S >= 2
        /\ IF S < 3 THEN compress(self) = self
           ELSE /\ CompressIterations(self, [samples |-> self.samples, i |-> 0,
                                             r |-> 1, s_mx |-> S - 1], 2 * S) = S - 1
                /\ Len(compress(self).samples) >= 2

\* C17: compress() on fewer than 3 samples changes nothing; on S >= 3 samples
\* its loop ends after exactly S - 1 iterations, reads only inside the
\* sequence and leaves at least 2 samples.
C17_CompressTerminates == CompressWellBehaved(a) /\ CompressWellBehaved(b)

\* C17 witness: a summary of at least 3 samples on which compress() merges.
C17_Witness ==
    /\ Len(a.samples) >= 3
    /\ Len(compress(a).samples) < Len(a.samples)
    /\ Len(compress(a).samples) >= 2

\* compress() leaves the first sample, the last sample's value and every
\* field but samples as they were; the ends hold the extremes of the bag of
\* values that went into self
CompressKeepsEnds(self, bag) ==
    LET c == compress(self)
        S == Len(self.samples)
    IN  S >= 1 =>
          /\ c.samples[1] = self.samples[1]
          /\ c.samples[Len(c.samples)].v = self.samples[S].v
          /\ c.samples[1].v = MinOf(bag)
          /\ c.samples[Len(c.samples)].v = MaxOf(bag)
          /\ c.n = self.n /\ c.sum = self.sum /\ c.last_in = self.last_in
          /\ c.inserts = self.inserts

\* C18: compress() never merges into or removes the first sample and never
\* changes the last sample's value: afterwards samples[0] is what it was and
\* holds the minimum inserted value, the last sample holds the same, maximum,
\* value, and n, sum, last_in and inserts are unchanged.
C18_CompressKeepsEnds ==
    /\ CompressKeepsEnds(a, IF merged THEN BagUnion(streamA, streamB) ELSE streamA)
    /\ CompressKeepsEnds(b, streamB)

\* C18 witness: a summary over distinct extremes on which compress() merges
\* an entry into the last sample.
C18_Witness ==
    LET c == compress(a)
    IN  /\ Len(a.samples) >= 3
        /\ a.samples[1].v < a.samples[Len(a.samples)].v
        /\ c.samples[Len(c.samples)].g > a.samples[Len(a.samples)].g

\* inserts counts the positioned insertions since the last compression pass
InsertsCounter(self) ==
    self.n >= 1 =>
        /\ 0 <= self.inserts /\ self.inserts < self.insert_threshold
        /\ self.inserts = (self.n - 1) % self.insert_threshold

\* the samples of post are those of pre with one entry for v put in place at
\* some index idx, with the delta the code gives it there: 0 at either end,
\* else invariant(r) - 1 for r the g of the idx entries before it
\* (compressed = FALSE), or that sequence after a compression pass (TRUE)
InsertedThenCompressed(pre, post, v, compressed) ==
    \E idx \in 0..Len(pre.samples) :
        LET s == Len(pre.samples)
            r == SumG(pre.samples, idx)
            delta == IF idx = 0 \/ idx = s THEN 0
                     ELSE invariant(pre, r, 1) - 1
            put == [post EXCEPT !.samples =
                        VecInsert(pre.samples, idx, Entry(v, 1, delta))]
        IN  post.samples = IF compressed THEN compress(put).samples ELSE put.samples

\* one call of insert taking pre to post
InsertTriggersCompress(pre, post, v) ==
    IF Len(pre.samples) = 0
    THEN post.inserts = pre.inserts /\ post.samples = <<Entry(v, 1, 0)>>
    ELSE /\ post.inserts = (pre.inserts + 1) % pre.insert_threshold
         /\ InsertedThenCompressed(pre, post, v, post.inserts = 0)

\* C19: an insertion runs the compression pass exactly when the inserts
\* counter wraps to 0, the first insertion into an empty summary is not
\* counted and never compresses, and in every reachable state with n >= 1,
\* 0 <= inserts < insert_threshold and inserts = (n - 1) mod insert_threshold,
\* after plain inserts and after the reinsertions of a merge alike.
C19_CompressOnWrap ==
    /\ [](InsertsCounter(a) /\ InsertsCounter(b))
    /\ [][(op' = "insert" /\ a' # a) =>
            InsertTriggersCompress(a, a', Unwrap(lastA'))]_vars

\* C19 witness: after a merge into a summary with insert_threshold 2, the
\* counter has just wrapped to 0 and the pass it triggered has merged samples.
C19_Witness ==
    /\ merged
    /\ a.insert_threshold = 2
    /\ a.inserts = 0
    /\ a.n >= 5
    /\ Len(a.samples) < a.n

\* every entry of self carries weight, and the weights add up to n
WeightConserved(self) ==
    /\ \A j \in 1..Len(self.samples) : self.samples[j].g >= 1
    /\ SumG(self.samples, Len(self.samples)) = self.n

\* C20: in every reachable state, after any sequence of inserts, compression
\* passes and merges, every sample has g >= 1 and the g of all samples sum to
\* n; a further compression pass keeps it so.
C20_WeightConserved ==
    /\ WeightConserved(a) /\ WeightConserved(b)
    /\ WeightConserved(compress(a)) /\ WeightConserved(compress(b))

\* C20 witness: after inserts, a merge and a compress() call, a holds an entry
\* that absorbed others (g >= 2) next to entries of weight 1.
C20_Witness ==
    /\ merged /\ manual
    /\ \E j, k \in 1..Len(a.samples) : a.samples[j].g >= 2 /\ a.samples[k].g = 1
    /\ BagSize(streamA) >= 2

\* q1 <= q2 for the rationals q1, q2
RatLeq(q1, q2) == q1[1] * q2[2] <= q2[1] * q1[2]

\* the quantiles of PhiSet in increasing order
PhiSeq == <<<<0, 1>>, <<1, 4>>, <<1, 2>>, <<3, 4>>, <<1, 1>>>>

\* the values query returns on self do not decrease as Phi grows
QueryMonotone(self) ==
    Len(self.samples) > 0 =>
        LET val == <<QueryValue(self, PhiSeq[1]), QueryValue(self, PhiSeq[2]),
                     QueryValue(self, PhiSeq[3]), QueryValue(self, PhiSeq[4]),
                     QueryValue(self, PhiSeq[5])>>
        IN  \A i, j \in 1..Len(PhiSeq) :
                RatLeq(PhiSeq[i], PhiSeq[j]) => val[i] <= val[j]

\* C21: on every reachable non-empty summary and for Phi1 <= Phi2 in [0, 1],
\* the value of query(Phi1) is <= the value of query(Phi2).  query borrows
\* the summary immutably (&self): it is an operator of the summary alone and
\* has no next-state effect.
C21_QueryMonotoneInPhi == QueryMonotone(a) /\ QueryMonotone(b)

\* C21 witness: a summary merged with a non-empty one and compressed, on
\* which two quantiles get different values, the larger one with a rank below
\* the number of samples.
C21_Witness ==
    /\ merged /\ BagSize(streamB) > 0
    /\ Len(a.samples) >= 3
    /\ Len(a.samples) < a.n
    /\ \E q1, q2 \in PhiSet :
          /\ RatLeq(q1, q2) /\ q1 # q2
          /\ QueryValue(a, q1) < QueryValue(a, q2)
          /\ QueryRank(a, q2) < Len(a.samples)

====
